---------------------------- MODULE Spec2Model ----------------------------
(***************************************************************************)
(* Gram-Schmidt orthonormalisation over fixed-dimension f64 vectors         *)
(* (src/src/lib.rs): the Vector trait's dot_product, length, normalize,     *)
(* scale and gram_schmidt, and the operator impls the vector! macro         *)
(* generates for Vector3 and Vector4.                                       *)
(*                                                                         *)
(* f64 is modelled as a binary floating-point format of the IEEE-754 kind   *)
(* with a reduced width: Precision significand bits, exponents from         *)
(* -MinExpMag to MaxExp, gradual underflow (subnormals), round to nearest   *)
(* ties-to-even, overflow to infinity, NaN.  f64 itself is the same format  *)
(* with 53 bits and exponents -1022..1023.  The sign of zero is not         *)
(* modelled: -0.0 == 0.0 under f64 comparison, and the only divisor the     *)
(* code ever uses is a length, the square root of a sum of squares, which   *)
(* is never -0.0.                                                           *)
(***************************************************************************)
EXTENDS Integers, Sequences, FiniteSets, TLC

VARIABLES
    dim,      \* Self::DIM of the vector type in use (Vector3 or Vector4)
    basis,    \* the caller's Vec<Self>, mutated in place by gram_schmidt
    index,    \* the loop variable of gram_schmidt (0-based, as in the code)
    pc,       \* where the caller's single call stands
    input,    \* history: the contents of basis when gram_schmidt was called
    writes,   \* history: how many times each slot of basis has been assigned
    v1,       \* first operand of a vector operation (self of length/normalize)
    v2,       \* second operand of dot_product
    v1_in,    \* history: v1 as the caller constructed it
    ret       \* the f64 a vector operation returned

vars == <<dim, basis, index, pc, input, writes, v1, v2, v1_in, ret>>

---------------------------------------------------------------------------
(* The floating-point format.                                              *)

Precision == 8
MaxExp == 15
MinExpMag == 14

\* A finite value is m * 2^q with |m| < 2^Precision and QMin <= q <= QMax.
QMin == 1 - MinExpMag - Precision
QMax == MaxExp - Precision + 1

Pow2(k) == 2 ^ k

Abs(n) == IF n < 0 THEN -n ELSE n

Sgn(n) == IF n < 0 THEN -1 ELSE IF n > 0 THEN 1 ELSE 0

MaxOf(a, b) == IF a >= b THEN a ELSE b

Fin(m, q) == [c |-> "fin", m |-> m, q |-> q]

Zero == Fin(0, 0)

Inf(s) == [c |-> "inf", m |-> s, q |-> 0]

NaN == [c |-> "nan", m |-> 0, q |-> 0]

IsNaN(x) == x.c = "nan"

IsInf(x) == x.c = "inf"

IsFinite(x) == x.c = "fin"

IsZero(x) == x.c = "fin" /\ x.m = 0

\* Number of significant bits of n >= 0.
BitLen(n) == CHOOSE k \in 0..30 : n < Pow2(k) /\ (k = 0 \/ n >= Pow2(k - 1))

\* The value nearest to s * n * 2^q (s * (n + d) * 2^q for some 0 < d < 1
\* when sticky), ties to even; n must carry at least Precision + 2 bits when
\* sticky.  The result is in canonical form: a normal value has exactly
\* Precision bits in m, a subnormal one has q = QMin.
Round(s, n, q, sticky) ==
    LET n1 == IF sticky THEN 2 * n + 1 ELSE n
        q1 == IF sticky THEN q - 1 ELSE q
        bits == BitLen(n1)
        qr == MaxOf(q1 + bits - Precision, QMin)
        sh == qr - q1
    IN  IF n1 = 0 THEN Zero
        ELSE IF sh <= 0
            THEN IF qr > QMax THEN Inf(s) ELSE Fin(s * n1 * Pow2(-sh), qr)
        ELSE IF sh > bits + 1 THEN Zero
        ELSE LET m0 == n1 \div Pow2(sh)
                 rem == n1 % Pow2(sh)
                 half == Pow2(sh - 1)
                 up == rem > half \/ (rem = half /\ m0 % 2 = 1)
                 m1 == IF up THEN m0 + 1 ELSE m0
                 carry == m1 = Pow2(Precision)
                 m2 == IF carry THEN Pow2(Precision - 1) ELSE m1
                 q2 == IF carry THEN qr + 1 ELSE qr
             IN  IF m2 = 0 THEN Zero
                 ELSE IF q2 > QMax THEN Inf(s)
                 ELSE Fin(s * m2, q2)

\* An integer literal such as 4.0.
FromInt(n) == Round(Sgn(n), Abs(n), 0, FALSE)

FNeg(x) ==
    IF IsNaN(x) THEN NaN
    ELSE IF IsInf(x) THEN Inf(-x.m)
    ELSE Fin(-x.m, x.q)

\* f64 + f64
FAdd(x, y) ==
    IF IsNaN(x) \/ IsNaN(y) THEN NaN
    ELSE IF IsInf(x) THEN (IF IsInf(y) /\ y.m # x.m THEN NaN ELSE x)
    ELSE IF IsInf(y) THEN y
    ELSE IF x.m = 0 THEN y
    ELSE IF y.m = 0 THEN x
    ELSE LET hi == IF x.q >= y.q THEN x ELSE y
             lo == IF x.q >= y.q THEN y ELSE x
             d == hi.q - lo.q
         IN  IF d > Precision + 2 THEN hi
             ELSE LET n == hi.m * Pow2(d) + lo.m
                  IN  Round(Sgn(n), Abs(n), lo.q, FALSE)

\* f64 - f64
FSub(x, y) == FAdd(x, FNeg(y))

\* f64 * f64
FMul(x, y) ==
    IF IsNaN(x) \/ IsNaN(y) THEN NaN
    ELSE IF IsInf(x) \/ IsInf(y)
        THEN (IF Sgn(x.m) * Sgn(y.m) = 0 THEN NaN ELSE Inf(Sgn(x.m) * Sgn(y.m)))
    ELSE Round(Sgn(x.m) * Sgn(y.m), Abs(x.m) * Abs(y.m), x.q + y.q, FALSE)

\* A nonzero finite value with its significand shifted to exactly Precision bits.
Normalised(x) ==
    LET s == Precision - BitLen(Abs(x.m))
    IN  [m |-> Abs(x.m) * Pow2(s), q |-> x.q - s]

\* f64 / f64
FDiv(x, y) ==
    IF IsNaN(x) \/ IsNaN(y) THEN NaN
    ELSE IF IsInf(x)
        THEN (IF IsInf(y) THEN NaN ELSE Inf(IF y.m < 0 THEN -x.m ELSE x.m))
    ELSE IF IsInf(y) THEN Zero
    ELSE IF y.m = 0 THEN (IF x.m = 0 THEN NaN ELSE Inf(Sgn(x.m)))
    ELSE IF x.m = 0 THEN Zero
    ELSE LET nx == Normalised(x)
             ny == Normalised(y)
             num == nx.m * Pow2(Precision + 2)
         IN  Round(Sgn(x.m) * Sgn(y.m), num \div ny.m,
                   nx.q - ny.q - (Precision + 2), num % ny.m # 0)

\* floor(sqrt(n)), one bit at a time from `bit` down.
RECURSIVE IsqrtFrom(_, _, _)
IsqrtFrom(n, r, bit) ==
    IF bit = 0 THEN r
    ELSE IF (r + bit) * (r + bit) <= n THEN IsqrtFrom(n, r + bit, bit \div 2)
    ELSE IsqrtFrom(n, r, bit \div 2)

\* f64::sqrt
FSqrt(x) ==
    IF IsNaN(x) THEN NaN
    ELSE IF IsInf(x) THEN (IF x.m > 0 THEN x ELSE NaN)
    ELSE IF x.m < 0 THEN NaN
    ELSE IF x.m = 0 THEN Zero
    ELSE LET nx == Normalised(x)
             t == IF (nx.q - (Precision + 3)) % 2 = 0
                  THEN Precision + 3 ELSE Precision + 4
             n == nx.m * Pow2(t)
             r == IsqrtFrom(n, 0, Pow2(Precision + 2))
         IN  Round(1, r, (nx.q - t) \div 2, r * r # n)

\* x < y as f64 compares (false when either is NaN).  A difference of two
\* distinct values never rounds to zero (gradual underflow).
FLt(x, y) ==
    LET d == FSub(x, y)
    IN  ~IsNaN(x) /\ ~IsNaN(y) /\ ~IsNaN(d) /\ d.m < 0

\* x <= y as f64 compares.
FLe(x, y) == ~IsNaN(x) /\ ~IsNaN(y) /\ (x = y \/ FLt(x, y))


---------------------------------------------------------------------------
(* The vector value type generated by the vector! macro.  A vector is the  *)
(* sequence of its components; component i of the code is element i + 1.   *)

\* const DIM of the two generated types, Vector4 and Vector3.
Dims == {3, 4}

\* $name::new
new(components) == components

\* $name::empty
empty(d) == [i \in 1..d |-> Zero]

\* impl Add for $name
add(self, rhs) == [i \in 1..Len(self) |-> FAdd(self[i], rhs[i])]

\* impl Sub for $name
sub(self, rhs) == [i \in 1..Len(self) |-> FSub(self[i], rhs[i])]

\* impl Mul<f64> for $name
mul(self, rhs) == [i \in 1..Len(self) |-> FMul(self[i], rhs)]

\* impl Div<f64> for $name
div(self, rhs) == [i \in 1..Len(self) |-> FDiv(self[i], rhs)]

\* impl Sum for $name: iter.fold(Self::empty(), |a, b| a + b)
RECURSIVE fold_add(_, _, _)
fold_add(acc, items, k) ==
    IF k > Len(items) THEN acc
    ELSE fold_add(add(acc, items[k]), items, k + 1)

sum(items, d) == fold_add(empty(d), items, 1)

\* The loop of Vector::dot_product: for i in 0..DIM { sum += v1[i] * v2[i] }
RECURSIVE dot_product_loop(_, _, _, _)
dot_product_loop(a, b, i, acc) ==
    IF i >= Len(a) THEN acc
    ELSE dot_product_loop(a, b, i + 1, FAdd(acc, FMul(a[i + 1], b[i + 1])))

\* A dot_product whose loop stops one component short.
dot_product_short(a, b) ==
    dot_product_loop(SubSeq(a, 1, Len(a) - 1), SubSeq(b, 1, Len(b) - 1), 0, Zero)

\* Vector::dot_product
dot_product(a, b) == dot_product_loop(a, b, 0, Zero)

\* A length that forgets the square root.
length_no_sqrt(self) == dot_product(self, self)

\* Vector::length
length(self) == FSqrt(dot_product(self, self))

\* A normalize that recomputes the length after every component it has
\* changed instead of computing it once.
RECURSIVE normalize_rescan(_, _)
normalize_rescan(self, i) ==
    IF i > Len(self) THEN self
    ELSE normalize_rescan([self EXCEPT ![i] = FDiv(self[i], length(self))], i + 1)

normalize_recomputing(self) == normalize_rescan(self, 1)

\* A normalize that leaves a vector of zero length as it is.
normalize_guarded(self) ==
    IF IsZero(length(self)) THEN self ELSE div(self, length(self))

\* Vector::normalize: len is computed once, then every component is divided.
normalize(self) ==
    LET len == length(self)
    IN  [i \in 1..Len(self) |-> FDiv(self[i], len)]

\* Vector::scale
scale(self, lambda) == mul(self, lambda)

---------------------------------------------------------------------------
(* Vector::gram_schmidt.                                                   *)

\* A loop body that projects against every slot of the vector, not only the
\* slots before index.
projections_all(b, idx) ==
    [j \in 1..Len(b) |-> scale(b[j], dot_product(b[idx + 1], b[j]))]

\* first_half.iter().cloned().map(|b| b.scale(dot_product(a, &b))), with
\* (first_half, second_half) = basis.split_at_mut(index), a = second_half[0].
projections(b, idx) ==
    [j \in 1..idx |-> scale(b[j], dot_product(b[idx + 1], b[j]))]

\* c before c.normalize(): a.clone() - sum
difference(b, idx) == sub(b[idx + 1], sum(projections(b, idx), Len(b[idx + 1])))

\* A loop body that stores c without normalizing it.
loop_body_unnormalized(b, idx) == [b EXCEPT ![idx + 1] = difference(b, idx)]

\* A loop body that writes its result one slot too far when there is one.
loop_body_shifted(b, idx) ==
    IF idx + 2 <= Len(b)
    THEN [b EXCEPT ![idx + 2] = normalize(difference(b, idx))]
    ELSE [b EXCEPT ![idx + 1] = normalize(difference(b, idx))]

\* One iteration of `for index in 1..basis.len()`: *a = c.
loop_body(b, idx) == [b EXCEPT ![idx + 1] = normalize(difference(b, idx))]

\* basis[0].normalize(), the first statement; it panics on an empty Vec
\* (index out of bounds), which the action below handles.
GramSchmidtEnter ==
    /\ pc = "idle"
    /\ IF Len(basis) = 0
       THEN /\ pc' = "panicked"
            /\ UNCHANGED <<basis, index, writes>>
       ELSE /\ basis' = [basis EXCEPT ![1] = normalize(basis[1])]
            /\ writes' = [writes EXCEPT ![1] = writes[1] + 1]
            /\ index' = 1
            /\ pc' = "loop"
    /\ UNCHANGED <<dim, input, v1, v2, v1_in, ret>>

\* One iteration of the for loop.
GramSchmidtIter ==
    /\ pc = "loop"
    /\ index < Len(basis)
    /\ basis' = loop_body(basis, index)
    /\ writes' = [k \in 1..Len(basis) |->
                     IF basis'[k] # basis[k] \/ k = index + 1
                     THEN writes[k] + 1 ELSE writes[k]]
    /\ index' = index + 1
    /\ UNCHANGED <<dim, pc, input, v1, v2, v1_in, ret>>

\* The range 1..basis.len() is exhausted: gram_schmidt returns.
GramSchmidtReturn ==
    /\ pc = "loop"
    /\ index >= Len(basis)
    /\ pc' = "done"
    /\ UNCHANGED <<dim, basis, index, input, writes, v1, v2, v1_in, ret>>

---------------------------------------------------------------------------
(* Calls of the vector operations on their own.                            *)

CallDotProduct ==
    /\ pc = "idle"
    /\ ret' = dot_product(v1, v2)
    /\ pc' = "dot_product"
    /\ UNCHANGED <<dim, basis, index, input, writes, v1, v2, v1_in>>

CallLength ==
    /\ pc = "idle"
    /\ ret' = length(v1)
    /\ pc' = "length"
    /\ UNCHANGED <<dim, basis, index, input, writes, v1, v2, v1_in>>

CallNormalize ==
    /\ pc = "idle"
    /\ v1' = normalize(v1)
    /\ pc' = "normalize"
    /\ UNCHANGED <<dim, basis, index, input, writes, v2, v1_in, ret>>

---------------------------------------------------------------------------
(* The inputs the callers construct.                                       *)

MaxLen == 3

\* Vector::new of integer literals.
Vec(ints) == new([i \in 1..Len(ints) |-> FromInt(ints[i])])

\* The smallest positive value, and the largest power of two.
Tiny == Fin(1, QMin)

Huge == Fin(Pow2(Precision - 1), QMax)

\* 2^-k, small enough that 1 + Eps * Eps rounds to 1.
Eps == Fin(Pow2(Precision - 1), 1 - Precision - (Precision \div 2 + 1))

One == FromInt(1)

\* The basis of basic_test, main and the benchmark.
TestBasis == <<Vec(<<1, 1, 1, 1>>), Vec(<<0, 1, 0, 1>>),
               Vec(<<0, 0, 1, 1>>), Vec(<<0, 0, 0, 1>>)>>

TestExpected ==
    LET h == FDiv(One, FromInt(2))
        n == FNeg(h)
    IN  <<new(<<h, h, h, h>>), new(<<n, h, n, h>>),
          new(<<n, n, h, h>>), new(<<h, n, n, h>>)>>

\* Three independent vectors that differ only in components of size Eps.
NearlyParallel ==
    <<new(<<One, Eps, Zero, Zero>>), new(<<One, Zero, Eps, Zero>>),
      new(<<One, Zero, Zero, Eps>>)>>

CoreVectors(d) ==
    IF d = 4
    THEN {TestBasis[1], TestBasis[2], TestBasis[3], TestBasis[4],
          Vec(<<3, 4, 5, 7>>), empty(4)}
    ELSE {Vec(<<1, 1, 1>>), Vec(<<0, 1, 1>>), Vec(<<0, 0, 1>>),
          Vec(<<1, 2, 3>>), empty(3)}

Unit(d, x) == [i \in 1..d |-> IF i = 1 THEN x ELSE Zero]

ExtraBases(d) ==
    {<<Unit(d, Tiny), Unit(d, Tiny)>>, <<Unit(d, Huge), Unit(d, Huge)>>}
    \cup (IF d = 4 THEN {TestBasis, NearlyParallel} ELSE {})

Bases(d) ==
    UNION {[1..n -> CoreVectors(d)] : n \in 0..MaxLen} \cup ExtraBases(d)

\* 3 * 2^k whose square is subnormal and needs rounding.
SubSquare == Round(1, 3, (QMin - 1) \div 2, FALSE)

Components == {Zero, One, FromInt(3), FromInt(-2), Tiny, Huge, SubSquare}

Operands(d) ==
    [1..d -> Components]
    \cup (IF d = 4
          THEN {Vec(<<4, 4, 4, 4>>), Vec(<<3, 4, 5, 7>>), Vec(<<1, 2, 3, 6>>)}
          ELSE {Vec(<<1, 2, 3>>)})

SecondOperands(d) ==
    IF d = 4
    THEN {Vec(<<3, 4, 5, 7>>), Vec(<<1, 2, 3, 6>>), Unit(4, Huge)}
    ELSE {Vec(<<1, 2, 3>>), new(<<Tiny, FromInt(-2), One>>), Unit(3, Huge)}

---------------------------------------------------------------------------
(* Specifications.                                                         *)

\* A caller builds a Vec of vectors and calls gram_schmidt on it.
Init ==
    /\ dim \in Dims
    /\ basis \in Bases(dim)
    /\ input = basis
    /\ writes = [k \in 1..Len(basis) |-> 0]
    /\ index = 0
    /\ pc = "idle"
    /\ v1 = << >>
    /\ v2 = << >>
    /\ v1_in = << >>
    /\ ret = Zero

Next == GramSchmidtEnter \/ GramSchmidtIter \/ GramSchmidtReturn

Spec == Init /\ [][Next]_vars

\* A caller builds two vectors and calls one vector operation.
InitVector ==
    /\ dim \in Dims
    /\ v1 \in Operands(dim)
    /\ v2 \in SecondOperands(dim)
    /\ v1_in = v1
    /\ ret = Zero
    /\ pc = "idle"
    /\ basis = << >>
    /\ input = << >>
    /\ writes = << >>
    /\ index = 0

NextVector == CallDotProduct \/ CallLength \/ CallNormalize

SpecVector == InitVector /\ [][NextVector]_vars

---------------------------------------------------------------------------
(* The whole call as one function, for statements about its result on      *)
(* another input.                                                          *)

RECURSIVE gram_schmidt_from(_, _)
gram_schmidt_from(b, idx) ==
    IF idx >= Len(b) THEN b ELSE gram_schmidt_from(loop_body(b, idx), idx + 1)

\* Vector::gram_schmidt on a non-empty Vec.
gram_schmidt(b) == gram_schmidt_from([b EXCEPT ![1] = normalize(b[1])], 1)

---------------------------------------------------------------------------
(* The formulas of the specification, written from its text with the same  *)
(* arithmetic: sums run left to right from their first term.               *)

RECURSIVE SpecDot(_, _, _)
SpecDot(a, b, n) ==
    IF n = 1 THEN FMul(a[1], b[1])
    ELSE FAdd(SpecDot(a, b, n - 1), FMul(a[n], b[n]))

SpecLength(v) == FSqrt(SpecDot(v, v, Len(v)))

SpecNormalize(v) == [i \in 1..Len(v) |-> FDiv(v[i], SpecLength(v))]

\* dot_product(output[j], a) . output[j]
SpecTerm(out, a, j) ==
    [k \in 1..Len(a) |-> FMul(SpecDot(out[j], a, Len(a)), out[j][k])]

\* projection_sum = sum over j = 0..i-1 of dot_product(output[j], basis[i]) . output[j]
RECURSIVE SpecProjectionSum(_, _, _)
SpecProjectionSum(out, a, n) ==
    IF n = 1 THEN SpecTerm(out, a, 1)
    ELSE [k \in 1..Len(a) |->
             FAdd(SpecProjectionSum(out, a, n - 1)[k], SpecTerm(out, a, n)[k])]

\* basis[i] - projection_sum, for i >= 1 (element n = i + 1 of b)
SpecDifference(out, b, n) ==
    [k \in 1..Len(b[n]) |-> FSub(b[n][k], SpecProjectionSum(out, b[n], n - 1)[k])]

\* output[0..n-1] of the specification's recurrence
RECURSIVE SpecOutput(_, _)
SpecOutput(b, n) ==
    IF n = 0 THEN << >>
    ELSE IF n = 1 THEN <<SpecNormalize(b[1])>>
    ELSE LET out == SpecOutput(b, n - 1)
         IN  Append(out, SpecNormalize(SpecDifference(out, b, n)))

HasNaNOrInf(v) == \E i \in 1..Len(v) : IsNaN(v[i]) \/ IsInf(v[i])

AllFinite(v) == \A i \in 1..Len(v) : IsFinite(v[i])

\* |x - y| <= tol
Within(x, y, tol) == FLe(FSub(x, y), tol) /\ FLe(FSub(y, x), tol)

\* A generous tolerance for "approximately": 1/8.
Tolerance == FDiv(One, FromInt(8))

\* Eight units in the last place below 1: 8 * 2^-Precision.
RoundingTolerance == Round(1, 1, 3 - Precision, FALSE)

\* A finite value that is positive and not subnormal.
IsNormalPositive(x) == IsFinite(x) /\ x.m >= Pow2(Precision - 1)

(* Linear independence of finite vectors, decided exactly: every vector is *)
(* scaled by a power of two to integer components, and the determinant of  *)
(* the Gram matrix of the scaled vectors is computed over the integers.    *)

RECURSIVE OddPartExp(_, _)
OddPartExp(m, q) == IF m % 2 = 0 THEN OddPartExp(m \div 2, q + 1) ELSE q

\* The exponent of the lowest set bit of a nonzero finite value.
LowExp(x) == OddPartExp(Abs(x.m), x.q)

MinExpOf(v) ==
    LET es == {LowExp(v[i]) : i \in {k \in 1..Len(v) : ~IsZero(v[k])}}
    IN  CHOOSE e \in es : \A f \in es : e <= f

Scaled(v) ==
    IF \A i \in 1..Len(v) : IsZero(v[i]) THEN [i \in 1..Len(v) |-> 0]
    ELSE [i \in 1..Len(v) |->
             IF IsZero(v[i]) THEN 0
             ELSE LET e == LowExp(v[i])
                      odd == v[i].m \div Pow2(e - v[i].q)
                  IN  odd * Pow2(e - MinExpOf(v))]

RECURSIVE IntDot(_, _, _)
IntDot(a, b, n) == IF n = 0 THEN 0 ELSE IntDot(a, b, n - 1) + a[n] * b[n]

RECURSIVE Det(_, _)
Det(M, n) ==
    IF n = 0 THEN 1
    ELSE IF n = 1 THEN M[1][1]
    ELSE LET Minor(c) ==
                 [i \in 1..(n - 1) |->
                     [j \in 1..(n - 1) |-> M[i + 1][IF j < c THEN j ELSE j + 1]]]
             RECURSIVE Expand(_)
             Expand(c) ==
                 IF c = 0 THEN 0
                 ELSE Expand(c - 1)
                      + (IF c % 2 = 1 THEN 1 ELSE -1) * M[1][c] * Det(Minor(c), n - 1)
         IN  Expand(n)

LinearlyIndependent(b) ==
    /\ \A i \in 1..Len(b) : AllFinite(b[i])
    /\ LET s == [i \in 1..Len(b) |-> Scaled(b[i])]
           G == [i \in 1..Len(b) |->
                    [j \in 1..Len(b) |-> IntDot(s[i], s[j], Len(s[i]))]]
       IN  Det(G, Len(b)) # 0

---------------------------------------------------------------------------
(* Claims.                                                                 *)

\* C1: when gram_schmidt has returned on an input of length L >= 1, the
\* sequence has length L, slot 0 holds normalize(basis[0]) and every later
\* slot i holds normalize(basis[i] - projection_sum) with the projections
\* taken against the outputs already computed; a single vector gives
\* [normalize(basis[0])], and the basis of basic_test gives the expected
\* vectors of +-0.5.
C1_Recurrence ==
    pc = "done" =>
        /\ Len(input) >= 1
        /\ Len(basis) = Len(input)
        /\ basis = SpecOutput(input, Len(input))
        /\ (Len(input) = 1 => basis = <<SpecNormalize(input[1])>>)
        /\ (input = TestBasis => basis = TestExpected)

C1_Witness == pc = "done" /\ input = TestBasis /\ basis = TestExpected

\* C2 (as stated): for every linearly independent input the output is
\* orthonormal within tolerance: dot_product(output[i], output[i]) is 1 and
\* dot_product(output[i], output[j]) is 0 for i # j.
C2_Orthonormal ==
    (pc = "done" /\ LinearlyIndependent(input)) =>
        \A i, j \in 1..Len(basis) :
            Within(dot_product(basis[i], basis[j]),
                   IF i = j THEN One ELSE Zero, Tolerance)

\* C3 (as stated): a call with an empty sequence does not fail, and the
\* sequence is still empty afterwards.
C3_EmptyCompletes ==
    Len(input) = 0 => (pc # "panicked" /\ basis = << >>)

\* C4: slots are written in increasing index order, each exactly once: the
\* slots below index hold their final value (written once, never changed
\* again), the slots from index on still hold their input value (never
\* written), and index only ever steps to the next slot.
C4_InPlaceOrder ==
    /\ [](\A k \in 1..Len(basis) :
            /\ (k > index => basis[k] = input[k] /\ writes[k] = 0)
            /\ (k <= index => writes[k] = 1))
    /\ [][/\ index' \in {index, index + 1}
          /\ \A k \in 1..Len(basis) : k <= index => basis'[k] = basis[k]]_vars

C4_Witness ==
    /\ pc = "loop"
    /\ index = 2
    /\ Len(basis) = 3
    /\ basis[1] # input[1]
    /\ basis[2] # input[2]
    /\ basis[3] = input[3]

\* C5: output[i] depends only on basis[0..=i]: it is what gram_schmidt
\* computes for slot i when given that prefix alone.  Two inputs that agree
\* on 0..=i (whatever follows, whatever their lengths) share that prefix, so
\* both runs produce this same output[i].
C5_PrefixOnly ==
    pc = "done" =>
        \A i \in 1..Len(input) : basis[i] = gram_schmidt(SubSeq(input, 1, i))[i]

C5_Witness ==
    /\ pc = "done"
    /\ Len(input) = 3
    /\ input[3] # input[2]
    /\ basis[2] = gram_schmidt(SubSeq(input, 1, 2))[2]
    /\ AllFinite(basis[2])

\* The case of C7: basis[1] == basis[0], a nonzero vector.
Duplicated ==
    /\ Len(input) >= 2
    /\ input[2] = input[1]
    /\ input[1] # empty(dim)

C8_NormalizeUnit ==
    pc = "normalize" =>
        /\ \A i \in 1..dim : v1[i] = FDiv(v1_in[i], SpecLength(v1_in))
        /\ FLt(Zero, SpecLength(v1_in)) => Within(SpecLength(v1), One, Tolerance)

\* C8 (amended): normalize divides every component by the length of the old
\* vector, computed once; when dot_product(v, v) is a normal number (it has
\* neither overflowed nor underflowed) the result has length 1 up to
\* rounding; [4,4,4,4] becomes [0.5,0.5,0.5,0.5]; for length(v) == 0 no
\* error is raised and the quotients by zero (NaN, Inf) are stored.
C8_NormalizeDivides ==
    pc = "normalize" =>
        /\ \A i \in 1..dim : v1[i] = FDiv(v1_in[i], SpecLength(v1_in))
        /\ IsNormalPositive(SpecDot(v1_in, v1_in, dim))
               => Within(SpecLength(v1), One, RoundingTolerance)
        /\ v1_in = Vec(<<4, 4, 4, 4>>) => v1 = TestExpected[1]
        /\ IsZero(SpecLength(v1_in)) => \A i \in 1..dim : IsNaN(v1[i]) \/ IsInf(v1[i])

C8_Witness ==
    /\ pc = "normalize"
    /\ v1_in = Vec(<<1, 2, 3, 6>>)
    /\ v1 # v1_in
    /\ Within(SpecLength(v1), One, RoundingTolerance)

\* C9: dot_product(a, b) is the sum over i of a[i] * b[i], the same in
\* either argument order, and leaves both vectors unchanged;
\* dot_product([1,2,3,6], [3,4,5,7]) is 68.
C9_DotProduct ==
    /\ [](pc = "dot_product" =>
            /\ ret = SpecDot(v1, v2, dim)
            /\ ret = SpecDot(v2, v1, dim)
            /\ ((v1 = Vec(<<1, 2, 3, 6>>) /\ v2 = Vec(<<3, 4, 5, 7>>))
                    => ret = FromInt(68)))
    /\ [][pc' = "dot_product" => (v1' = v1 /\ v2' = v2)]_vars

C9_Witness ==
    /\ pc = "dot_product"
    /\ v1 = Vec(<<1, 2, 3, 6>>)
    /\ v2 = Vec(<<3, 4, 5, 7>>)
    /\ ret = FromInt(68)

\* C10 (as stated): length(v) is sqrt(dot_product(v, v)), is >= 0, and is 0
\* only for the zero vector.
C10_LengthDefinite ==
    pc = "length" =>
        /\ ret = SpecLength(v1)
        /\ FLe(Zero, ret)
        /\ IsZero(ret) => v1 = empty(dim)

\* C10 (amended): length(v) is sqrt(dot_product(v, v)) and is >= 0; it is 0
\* for the zero vector and otherwise only when every square v[i] * v[i]
\* underflows to zero; length([4,4,4,4]) is 8 and length([3,4,5,7]) is
\* sqrt(99).
C10_LengthUnderflow ==
    pc = "length" =>
        /\ ret = SpecLength(v1)
        /\ FLe(Zero, ret)
        /\ v1 = empty(dim) => IsZero(ret)
        /\ IsZero(ret) => \A i \in 1..dim : IsZero(FMul(v1[i], v1[i]))
        /\ v1 = Vec(<<4, 4, 4, 4>>) => ret = FromInt(8)
        /\ v1 = Vec(<<3, 4, 5, 7>>) => ret = FSqrt(FromInt(99))

C10_Witness ==
    /\ pc = "length"
    /\ IsZero(ret)
    /\ v1 # empty(dim)
    /\ \A i \in 1..dim : IsZero(FMul(v1[i], v1[i]))

===========================================================================
